---------------------------- MODULE Spec2Model ----------------------------
(***************************************************************************)
(* A model of function_app.py: link discovery on a category listing page,  *)
(* the four-strategy publish-timestamp resolver, and the crawl loop that   *)
(* keeps the articles published on the target day.                         *)
(*                                                                         *)
(* Three specifications share the variables:                               *)
(*   SpecLinks    get_article_links, stepped through its two passes        *)
(*   SpecResolve  parse_article, stepped through the "or" chain of the     *)
(*                four timestamp strategies                                *)
(*   Spec         crawl_today, one step per call it makes                  *)
(***************************************************************************)
EXTENDS Integers, Sequences, FiniteSets, TLC

VARIABLES
    pc,            \* position in the function the specification steps through
    category_url,  \* parameter of get_article_links / crawl_today
    limit,         \* parameter of get_article_links / crawl_today
    page,          \* the parsed listing page: its a[href] anchors in document order
    links,         \* get_article_links: the local set "links"
    scanned,       \* get_article_links: anchors pass 2 has examined
    pass1,         \* get_article_links: the value of "links" when pass 1 ended
    result,        \* get_article_links: the returned list
    doc,           \* parse_article: the parsed article page
    published_dt,  \* parse_article: the local "published_dt" while the or-chain runs
    tried,         \* parse_article: the strategies evaluated so far, in order
    art,           \* parse_article: the returned record
    today_kst,     \* crawl_today: the target datetime
    sleep_sec,     \* crawl_today: the pause between articles
    local_off,     \* the UTC offset of the host's local timezone (hours)
    url_list,      \* crawl_today: the local "links"
    idx,           \* crawl_today: position of the for loop in url_list
    results,       \* crawl_today: the local list "results"
    fetched,       \* every URL handed to fetch(), in order
    outcome,       \* crawl_today: per attempted article "kept", "dropped" or "raised"
    sleeps         \* number of time.sleep calls made

vars == <<pc, category_url, limit, page, links, scanned, pass1, result, doc,
          published_dt, tried, art, today_kst, sleep_sec, local_off, url_list,
          idx, results, fetched, outcome, sleeps>>

None == [kind |-> "None"]

-----------------------------------------------------------------------------
(* Bounds of the model.                                                    *)

MaxAnchors == 3     \* a[href] anchors on a listing page
MaxLimit == 2       \* largest value of the parameter limit
MaxLdItems == 3     \* JSON-LD objects and malformed blocks on an article page

-----------------------------------------------------------------------------
(* URLs.  A URL or href is a record                                        *)
(*   netloc  the host as its sequence of labels, <<>> when there is none   *)
(*   rooted  the path starts with "/"                                      *)
(*   segs    the path's segments                                           *)
(*   slash   the path ends with "/"                                        *)
(* A segment made of digits only is the sequence of its digits; any other  *)
(* segment is a word.  An href with a netloc carries a scheme (https), so  *)
(* urljoin returns it unchanged.                                           *)

Digits == {"0", "1", "2", "3", "4", "5", "6", "7", "8", "9"}

Word(w) == [word |-> w, digits |-> <<>>]
Num(d) == [word |-> "", digits |-> d]

Url(n, r, s, t) == [netloc |-> n, rooted |-> r, segs |-> s, slash |-> t]

TC == <<"techcrunch", "com">>

S2025 == Num(<<"2", "0", "2", "5">>)
S1999 == Num(<<"1", "9", "9", "9">>)
S09 == Num(<<"0", "9">>)
S10 == Num(<<"1", "0">>)

CATEGORY_URL == Url(TC, TRUE, <<Word("category"), Word("artificial-intelligence")>>, TRUE)

\* the category URLs a caller passes: the default, another category of the
\* same site, and a listing page of another site
CategoryUrls ==
    { CATEGORY_URL,
      Url(TC, TRUE, <<Word("category"), Word("startups")>>, TRUE),
      Url(<<"example", "com">>, TRUE, <<Word("news")>>, TRUE) }

\* the hrefs found on listing pages
Hrefs ==
    { Url(<<>>, TRUE, <<S2025, S09, Word("foo")>>, TRUE),            \* /2025/09/foo/
      Url(TC, TRUE, <<S2025, S09, Word("foo")>>, TRUE),              \* https://techcrunch.com/2025/09/foo/
      Url(<<>>, FALSE, <<Word("news"), S2025, S10, Word("bar")>>, FALSE), \* news/2025/10/bar
      Url(<<>>, TRUE, <<S2025, S10, Word("bar")>>, TRUE),            \* /2025/10/bar/
      Url(<<>>, TRUE, <<S1999, S09, Word("foo")>>, TRUE),            \* /1999/09/foo/
      Url(<<"example", "com">>, TRUE, <<S2025, S09, Word("foo")>>, TRUE) }

\* re.search(r"/20\d{2}/\d{2}/", path): a segment "20dd" with a "/" before
\* it, followed by a segment "dd" with a "/" after it
IsYearSeg(s) ==
    /\ s.word = "" /\ Len(s.digits) = 4
    /\ s.digits[1] = "2" /\ s.digits[2] = "0"
    /\ s.digits[3] \in Digits /\ s.digits[4] \in Digits

IsTwoDigitSeg(s) ==
    /\ s.word = "" /\ Len(s.digits) = 2
    /\ s.digits[1] \in Digits /\ s.digits[2] \in Digits

PathHasDate(u) ==
    \E i \in 1..(Len(u.segs) - 1) :
        /\ IsYearSeg(u.segs[i])
        /\ IsTwoDigitSeg(u.segs[i + 1])
        /\ (i > 1 \/ u.rooted)
        /\ (i + 1 < Len(u.segs) \/ u.slash)

\* "techcrunch.com" in u.netloc, on the labels of the host
NetlocHasTechcrunch(n) ==
    \E i \in 1..(Len(n) - 1) : n[i] = "techcrunch" /\ n[i + 1] = "com"

is_article_url(href) ==
    /\ (NetlocHasTechcrunch(href.netloc) \/ href.netloc = <<>>)
    /\ PathHasDate(href)

\* the directory of a base URL's path: everything up to its last "/"
BaseDir(base) ==
    IF base.slash \/ base.segs = <<>> THEN base.segs
    ELSE SubSeq(base.segs, 1, Len(base.segs) - 1)

\* urllib.parse.urljoin for hrefs without "." or ".." segments
urljoin(base, href) ==
    IF href.netloc # <<>> THEN href
    ELSE IF href.rooted THEN Url(base.netloc, TRUE, href.segs, href.slash)
    ELSE Url(base.netloc, TRUE, BaseDir(base) \o href.segs, href.slash)

normalize_link(href) == urljoin(CATEGORY_URL, href)


-----------------------------------------------------------------------------
(* get_article_links.  A listing page is the sequence of its a[href]       *)
(* anchors in document order; h3 marks the anchor that h3.find("a",        *)
(* href=True) returns for some h3 element.                                 *)

\* an h3 of the listing page holds a link into the site itself
H3Hrefs == { h \in Hrefs : h.netloc \in {<<>>, TC} }

Anchors == [href : Hrefs, h3 : {FALSE}] \cup [href : H3Hrefs, h3 : {TRUE}]

SeqsUpTo(S, n) == UNION { [1..k -> S] : k \in 0..n }

Pages == SeqsUpTo(Anchors, MaxAnchors)

\* if is_article_url(href): links.add(normalize_link(href))
AddLink(ls, href) ==
    IF is_article_url(href) THEN ls \cup {normalize_link(href)} ELSE ls

\* lines 83-86: the loop over soup.find_all("h3")
RECURSIVE PassOneFrom(_, _, _)
PassOneFrom(pg, i, ls) ==
    IF i > Len(pg) THEN ls
    ELSE PassOneFrom(pg, i + 1, IF pg[i].h3 THEN AddLink(ls, pg[i].href) ELSE ls)

PassOneLinks(pg) == PassOneFrom(pg, 1, {})

\* line 89: pass 2 is entered
EntersPassTwo(ls, lim) == Cardinality(ls) < lim

\* line 94: the break of pass 2
StopScanLate(ls, lim) == Cardinality(ls) > lim

StopScan(ls, lim) == Cardinality(ls) >= lim

\* lines 90-95: the loop over soup.find_all("a", href=True), from anchor j
RECURSIVE PassTwoFrom(_, _, _, _)
PassTwoFrom(pg, j, ls, lim) ==
    IF j > Len(pg) THEN ls
    ELSE LET ls2 == AddLink(ls, pg[j].href)
         IN  IF StopScan(ls2, lim) THEN ls2 ELSE PassTwoFrom(pg, j + 1, ls2, lim)

\* list(links): a set iterates in an order the hash seeds decide
ListsOf(S) ==
    { f \in [1..Cardinality(S) -> S] : \A i, j \in DOMAIN f : i # j => f[i] # f[j] }

Min(a, b) == IF a < b THEN a ELSE b

\* line 97: [:limit], for limit >= 1
TruncateOff(l, lim) == l

Truncate(l, lim) == SubSeq(l, 1, Min(lim, Len(l)))

\* the lists get_article_links may return for a fetched page
GetArticleLinks(pg, lim) ==
    LET p1 == PassOneLinks(pg)
        ls == IF EntersPassTwo(p1, lim) THEN PassTwoFrom(pg, 1, p1, lim) ELSE p1
    IN  { Truncate(l, lim) : l \in ListsOf(ls) }

Range(f) == { f[i] : i \in DOMAIN f }

\* the values the variables of the other specifications rest at
IdleLinks ==
    /\ page = <<>> /\ links = {} /\ scanned = 0 /\ pass1 = {} /\ result = <<>>

IdleResolve ==
    /\ doc = None /\ published_dt = None /\ tried = <<>> /\ art = None

IdleCrawl ==
    /\ today_kst = None /\ sleep_sec = 0 /\ local_off = 0 /\ url_list = <<>>
    /\ idx = 0 /\ results = <<>> /\ fetched = <<>> /\ outcome = <<>> /\ sleeps = 0

LinksVars == <<page, links, scanned, pass1, result>>
ResolveVars == <<doc, published_dt, tried, art>>
CrawlVars == <<today_kst, sleep_sec, local_off, url_list, idx, results,
               fetched, outcome, sleeps>>

InitLinks ==
    /\ pc = "start"
    /\ category_url \in CategoryUrls
    /\ limit \in 1..MaxLimit
    /\ IdleLinks /\ IdleResolve /\ IdleCrawl

\* lines 77-80: fetch(category_url) raises, or the page is parsed
FetchListing ==
    /\ pc = "start"
    /\ \/ /\ pc' = "raised"
          /\ UNCHANGED page
       \/ /\ page' \in Pages
          /\ pc' = "pass1"
    /\ links' = {}
    /\ UNCHANGED <<category_url, limit, scanned, pass1, result>>
    /\ UNCHANGED ResolveVars /\ UNCHANGED CrawlVars

\* lines 83-89
PassOne ==
    /\ pc = "pass1"
    /\ links' = PassOneLinks(page)
    /\ pass1' = links'
    /\ pc' = IF EntersPassTwo(links', limit) THEN "pass2" ELSE "trunc"
    /\ UNCHANGED <<category_url, limit, page, scanned, result>>
    /\ UNCHANGED ResolveVars /\ UNCHANGED CrawlVars

\* lines 90-95: one iteration of pass 2
PassTwoStep ==
    /\ pc = "pass2"
    /\ scanned < Len(page)
    /\ links' = AddLink(links, page[scanned + 1].href)
    /\ scanned' = scanned + 1
    /\ pc' = IF StopScan(links', limit) THEN "trunc" ELSE "pass2"
    /\ UNCHANGED <<category_url, limit, page, pass1, result>>
    /\ UNCHANGED ResolveVars /\ UNCHANGED CrawlVars

\* line 90: the loop of pass 2 runs out of anchors
PassTwoExhausted ==
    /\ pc = "pass2"
    /\ scanned = Len(page)
    /\ pc' = "trunc"
    /\ UNCHANGED <<category_url, limit, page, links, scanned, pass1, result>>
    /\ UNCHANGED ResolveVars /\ UNCHANGED CrawlVars

\* line 97
ReturnLinks ==
    /\ pc = "trunc"
    /\ \E l \in ListsOf(links) : result' = Truncate(l, limit)
    /\ pc' = "done"
    /\ UNCHANGED <<category_url, limit, page, links, scanned, pass1>>
    /\ UNCHANGED ResolveVars /\ UNCHANGED CrawlVars

NextLinks == FetchListing \/ PassOne \/ PassTwoStep \/ PassTwoExhausted \/ ReturnLinks

SpecLinks == InitLinks /\ [][NextLinks]_vars


-----------------------------------------------------------------------------
(* Datetimes.  Time is counted in hours; a calendar day is 24 of them.     *)
(*   Aware(w, o)   wall-clock hour w at UTC offset o: the instant w - o    *)
(*   NaiveDT(w)    wall-clock hour w with no tzinfo                        *)
(*   Iso(w, tz)    the ISO-8601 string of wall-clock hour w with the       *)
(*                 suffix tz: "Z", "+00:00", "+09:00" or "" (no offset)    *)
(*   Garbage       a string that is no ISO-8601 datetime                   *)
(*   NotStr        a JSON value that is truthy and no string (a number)    *)

KST == 9    \* timezone(timedelta(hours=9)); Asia/Seoul since 1988

Aware(w, o) == [kind |-> "aware", wall |-> w, off |-> o]
NaiveDT(w) == [kind |-> "naive", wall |-> w]
Iso(w, tz) == [kind |-> "iso", wall |-> w, tz |-> tz]
Garbage == [kind |-> "garbage"]
NotStr == [kind |-> "number"]
Raise == [kind |-> "raise"]

\* str.replace("Z", "+00:00")
replace_Z(s) == IF s.kind = "iso" /\ s.tz = "Z" THEN Iso(s.wall, "+00:00") ELSE s

\* datetime.fromisoformat, of a string that holds no "Z"
fromisoformat(s) ==
    IF s.kind # "iso" THEN Raise
    ELSE CASE s.tz = "" -> NaiveDT(s.wall)
           [] s.tz = "+00:00" -> Aware(s.wall, 0)
           [] s.tz = "+09:00" -> Aware(s.wall, 9)
           [] OTHER -> Raise

\* datetime.isoformat of an aware datetime
isoformat(dt) ==
    Iso(dt.wall, CASE dt.off = 0 -> "+00:00" [] dt.off = 9 -> "+09:00")

\* datetime.astimezone(tz): a naive datetime is taken as the host's local time
astimezone(dt, off, local) ==
    LET utc == dt.wall - (IF dt.kind = "naive" THEN local ELSE dt.off)
    IN  Aware(utc + off, off)

\* datetime.date(): the calendar day of the wall clock
DateOf(dt) == dt.wall \div 24

\* the text a date is searched in: no "Month d, yyyy" in it, the first match
\* is day d, or the first match is no calendar date ("February 30, 2025")
NoMatch == [kind |-> "nomatch"]
HumanDate(d) == [kind |-> "date", day |-> d]
BadDate == [kind |-> "baddate"]

\* lines 182-190
parse_human_datetime(text) ==
    IF text.kind = "date" THEN Aware(24 * text.day, 0) ELSE None

-----------------------------------------------------------------------------
(* Article pages.  A parsed page is a record                               *)
(*   meta  the content of the article:published_time meta tag, None when   *)
(*         the tag or its content is missing                               *)
(*   ld    the application/ld+json scripts in document order               *)
(*   time  the first time element, None when there is none                 *)
(*   text  the visible text of the whole page                              *)

ArticleTypes == {"NewsArticle", "Article", "BlogPosting"}

\* a JSON-LD object; type "unhashable" is an @type that is a JSON list
Obj(t, dp, dc) == [kind |-> "obj", type |-> t, datePublished |-> dp, dateCreated |-> dc]
NotDict == [kind |-> "notdict"]

\* a script: text that is no JSON, or the list "candidates" of line 157
Malformed == [kind |-> "malformed"]
Block(objs) == [kind |-> "block", objs |-> objs]

TimeTag(dtattr, text) == [kind |-> "time", datetime |-> dtattr, text |-> text]

Doc(m, l, t, x) == [kind |-> "doc", meta |-> m, ld |-> l, time |-> t, text |-> x]

\* lines 144-151
get_meta_datetime(d) ==
    IF d.meta = None THEN None
    ELSE LET r == fromisoformat(replace_Z(d.meta))
         IN  IF r = Raise THEN None ELSE r

\* line 160: obj.get("datePublished") or obj.get("dateCreated")
DateField(o) == IF o.datePublished # None THEN o.datePublished ELSE o.dateCreated

\* lines 158-162: the loop over candidates from object i; None when the
\* loop ends without returning, Raise when it raises
RECURSIVE ScanCandidates(_, _)
ScanCandidates(objs, i) ==
    IF i > Len(objs) THEN None
    ELSE LET o == objs[i]
         IN  IF o.kind # "obj" THEN ScanCandidates(objs, i + 1)
             ELSE IF o.type = "unhashable" THEN Raise
             ELSE IF o.type \notin ArticleTypes THEN ScanCandidates(objs, i + 1)
             ELSE IF DateField(o) = None THEN ScanCandidates(objs, i + 1)
             ELSE IF DateField(o) = NotStr THEN Raise
             ELSE fromisoformat(replace_Z(DateField(o)))

\* lines 154-165: the loop over the scripts from script b
RECURSIVE ScanScripts(_, _)
ScanScripts(ld, b) ==
    IF b > Len(ld) THEN None
    ELSE IF ld[b].kind = "malformed" THEN ScanScripts(ld, b + 1)
    ELSE LET r == ScanCandidates(ld[b].objs, 1)
         IN  IF r = Raise \/ r = None THEN ScanScripts(ld, b + 1) ELSE r

get_ldjson_datetime(d) == ScanScripts(d.ld, 1)

\* lines 167-176
get_time_tag_datetime(d) ==
    IF d.time = None THEN None
    ELSE LET r == IF d.time.datetime = None THEN Raise
                  ELSE fromisoformat(replace_Z(d.time.datetime))
         IN  IF r # Raise THEN r ELSE parse_human_datetime(d.time.text)

\* lines 178-180
get_text_datetime_fallback(d) == parse_human_datetime(d.text)

\* lines 126-131: the operands of the or-chain, left to right
StrategyOrderLdFirst == <<"ld", "meta", "time", "text">>

StrategyOrder == <<"meta", "ld", "time", "text">>

StrategyValue(name, d) ==
    CASE name = "meta" -> get_meta_datetime(d)
      [] name = "ld" -> get_ldjson_datetime(d)
      [] name = "time" -> get_time_tag_datetime(d)
      [] name = "text" -> get_text_datetime_fallback(d)

\* a or b or c or d: the first operand that is not None, else the last
RECURSIVE OrChain(_, _)
OrChain(d, k) ==
    LET v == StrategyValue(StrategyOrder[k], d)
    IN  IF v # None \/ k = Len(StrategyOrder) THEN v ELSE OrChain(d, k + 1)

\* lines 136-142, without the title and the body
ArticleRecord(url, dt, local) ==
    [ kind |-> "art",
      url |-> url,
      published_utc |-> IF dt # None THEN isoformat(astimezone(dt, 0, local)) ELSE None,
      published_kst |-> IF dt # None THEN isoformat(astimezone(dt, KST, local)) ELSE None ]

\* lines 113-142 for a page that was fetched
parse_article(url, d, local) == ArticleRecord(url, OrChain(d, 1), local)


-----------------------------------------------------------------------------
(* The article pages of the model.                                         *)

\* date strings found on pages: 06:00Z and 16:00Z of day 1, 06:00 with no
\* offset, 16:00+09:00, and a string that is no date
IsoStrings == { Iso(30, "Z"), Iso(40, "Z"), Iso(30, ""), Iso(40, "+09:00"), Garbage }

Texts == { NoMatch, HumanDate(1), HumanDate(2), BadDate }

LdObjs ==
    { Obj("NewsArticle", Iso(30, "Z"), None),
      Obj("Article", Garbage, Iso(40, "+09:00")),
      Obj("BlogPosting", None, Iso(40, "+09:00")),
      Obj("NewsArticle", NotStr, Iso(30, "")),
      Obj("Person", Iso(40, "Z"), None),
      Obj("unhashable", Iso(40, "Z"), None),
      NotDict }

LdItems == LdObjs \cup {Malformed}

\* the scripts made of the items f in document order: a malformed script
\* stands alone, and the object f[i] opens a new script where cut[i] holds
RECURSIVE ScriptsOf(_, _, _, _)
ScriptsOf(f, cut, i, acc) ==
    IF i > Len(f) THEN acc
    ELSE IF f[i] = Malformed THEN ScriptsOf(f, cut, i + 1, Append(acc, Malformed))
    ELSE IF i > 1 /\ ~cut[i] /\ f[i - 1] # Malformed
         THEN ScriptsOf(f, cut, i + 1,
                        [acc EXCEPT ![Len(acc)] = Block(Append(acc[Len(acc)].objs, f[i]))])
         ELSE ScriptsOf(f, cut, i + 1, Append(acc, Block(<<f[i]>>)))

LdScripts(n) ==
    UNION { { ScriptsOf(f, cut, 1, <<>>) : f \in [1..k -> LdItems], cut \in [1..k -> BOOLEAN] }
            : k \in 0..n }

TimeTags == { None } \cup { TimeTag(a, x) : a \in {None} \cup IsoStrings, x \in Texts }

\* pages that vary the JSON-LD scripts, and pages that vary the four sources
\* of the date; the page's text holds the text of its time element
Docs ==
    { Doc(None, l, None, NoMatch) : l \in LdScripts(MaxLdItems) }
    \cup { d \in { Doc(m, l, t, x) : m \in {None} \cup IsoStrings, l \in LdScripts(1),
                                     t \in TimeTags, x \in Texts } :
             (d.time # None /\ d.time.text # NoMatch) => d.text # NoMatch }

\* the URL parse_article is called with
SampleUrl == Url(TC, TRUE, <<S2025, S09, Word("foo")>>, TRUE)

LocalOffsets == {0, -8}

\* an entry of the log of fetch() calls
Log(u, ok) == [url |-> u, ok |-> ok]

-----------------------------------------------------------------------------
(* SpecResolve: parse_article(url), stepped through the or-chain.          *)

InitResolve ==
    /\ pc = "start"
    /\ category_url = CATEGORY_URL /\ limit = 1
    /\ IdleLinks /\ IdleResolve
    /\ today_kst = None /\ sleep_sec = 0 /\ url_list = <<>> /\ idx = 0
    /\ results = <<>> /\ fetched = <<>> /\ outcome = <<>> /\ sleeps = 0
    /\ local_off \in LocalOffsets

\* lines 117-119: fetch(url) raises, or the page is parsed
FetchArticle ==
    /\ pc = "start"
    /\ \/ fetched' = <<Log(SampleUrl, FALSE)>> /\ pc' = "raised" /\ UNCHANGED doc
       \/ fetched' = <<Log(SampleUrl, TRUE)>> /\ pc' = "chain" /\ doc' \in Docs
    /\ UNCHANGED <<category_url, limit, published_dt, tried, art>>
    /\ UNCHANGED LinksVars
    /\ UNCHANGED <<today_kst, sleep_sec, local_off, url_list, idx, results, outcome, sleeps>>

\* lines 126-131: the next operand of the or-chain is evaluated
EvalStrategy ==
    /\ pc = "chain"
    /\ LET k == Len(tried) + 1
           v == StrategyValue(StrategyOrder[k], doc)
       IN  /\ tried' = Append(tried, [name |-> StrategyOrder[k], value |-> v])
           /\ published_dt' = v
           /\ pc' = IF v # None \/ k = Len(StrategyOrder) THEN "build" ELSE "chain"
    /\ UNCHANGED <<category_url, limit, doc, art>>
    /\ UNCHANGED LinksVars /\ UNCHANGED CrawlVars

\* lines 136-142
BuildRecord ==
    /\ pc = "build"
    /\ art' = ArticleRecord(fetched[1].url, published_dt, local_off)
    /\ pc' = "done"
    /\ UNCHANGED <<category_url, limit, doc, published_dt, tried>>
    /\ UNCHANGED LinksVars /\ UNCHANGED CrawlVars

NextResolve == FetchArticle \/ EvalStrategy \/ BuildRecord

SpecResolve == InitResolve /\ [][NextResolve]_vars


-----------------------------------------------------------------------------
(* Spec: crawl_today(category_url, today_kst, limit, sleep_sec).           *)
(* fetched logs every call of fetch(): the URL, and whether the call and   *)
(* the work on its page went through without an exception.                 *)

\* the target datetimes a caller passes: midnight of day 1 in KST, and
\* 16:00 of day 1 in UTC, which is 01:00 of day 2 in KST
TargetDatetimes == { Aware(24, KST), Aware(40, 0) }

\* datetime.now(KST): 02:00 of day 2
NowKst == { Aware(50, KST) }

\* the category URLs crawl_today is called with
CrawlCategoryUrls == { CATEGORY_URL, Url(<<"example", "com">>, TRUE, <<Word("news")>>, TRUE) }

\* the pause, as the callers clamp it (line 242, lines 315-324)
SleepSecs == {0, 1}

\* the pages the article URLs answer with
CrawlDocs == { Doc(m, <<>>, None, x) : m \in {None} \cup IsoStrings, x \in {NoMatch, HumanDate(1)} }

\* lines 218-221
is_today_kst(dt, today, local) ==
    IF dt = None THEN FALSE
    ELSE DateOf(astimezone(dt, KST, local)) = DateOf(today)

\* line 232: the condition of the if
Keeps(a, today, local) ==
    IF a.published_kst = None THEN FALSE
    ELSE is_today_kst(fromisoformat(a.published_kst), today, local)

\* line 233: results.append(art)
KeepFront(rs, a) == <<a>> \o rs

Keep(rs, a) == Append(rs, a)

\* line 227 stands outside any try: an exception of get_article_links
\* leaves crawl_today
ListingFailureSwallowed == "loop"

AfterListingFailure == "raised"

\* lines 234-235: except Exception: pass
ArticleFailureRaised == "raised"

AfterArticleFailure == "sleep"

\* the lists get_article_links(category_url, limit) may return, over every
\* listing page
LinkLists == [ lim \in 1..MaxLimit |-> UNION { GetArticleLinks(pg, lim) : pg \in Pages } ]

Init ==
    /\ pc = "start"
    /\ category_url \in CrawlCategoryUrls
    /\ limit \in 1..MaxLimit
    /\ today_kst \in TargetDatetimes \cup {None}
    /\ sleep_sec \in SleepSecs
    /\ local_off \in LocalOffsets
    /\ IdleLinks /\ IdleResolve
    /\ url_list = <<>> /\ idx = 1 /\ results = <<>> /\ fetched = <<>>
    /\ outcome = <<>> /\ sleeps = 0

\* lines 224-226
CrawlStart ==
    /\ pc = "start"
    /\ IF today_kst = None THEN today_kst' \in NowKst ELSE UNCHANGED today_kst
    /\ pc' = "discover"
    /\ UNCHANGED <<category_url, limit, sleep_sec, local_off, url_list, idx, results,
                   fetched, outcome, sleeps>>
    /\ UNCHANGED LinksVars /\ UNCHANGED ResolveVars

\* lines 227-228: get_article_links raises on the listing page, or returns
Discover ==
    /\ pc = "discover"
    /\ \/ /\ fetched' = Append(fetched, Log(category_url, FALSE))
          /\ pc' = AfterListingFailure
          /\ UNCHANGED <<url_list, idx>>
       \/ /\ fetched' = Append(fetched, Log(category_url, TRUE))
          /\ url_list' \in LinkLists[limit]
          /\ idx' = 1
          /\ pc' = "loop"
    /\ UNCHANGED <<category_url, limit, today_kst, sleep_sec, local_off, results,
                   outcome, sleeps>>
    /\ UNCHANGED LinksVars /\ UNCHANGED ResolveVars

\* lines 229-235: the try block for the next URL
ProcessArticle ==
    /\ pc = "loop"
    /\ idx <= Len(url_list)
    /\ \/ /\ fetched' = Append(fetched, Log(url_list[idx], FALSE))
          /\ outcome' = Append(outcome, "raised")
          /\ pc' = AfterArticleFailure
          /\ UNCHANGED results
       \/ \E d \in CrawlDocs :
             LET a == parse_article(url_list[idx], d, local_off)
             IN  /\ fetched' = Append(fetched, Log(url_list[idx], TRUE))
                 /\ IF Keeps(a, today_kst, local_off)
                    THEN results' = Keep(results, a) /\ outcome' = Append(outcome, "kept")
                    ELSE UNCHANGED results /\ outcome' = Append(outcome, "dropped")
                 /\ pc' = "sleep"
    /\ UNCHANGED <<category_url, limit, today_kst, sleep_sec, local_off, url_list, idx, sleeps>>
    /\ UNCHANGED LinksVars /\ UNCHANGED ResolveVars

\* line 236: time.sleep raises ValueError for a negative pause
Sleep ==
    /\ pc = "sleep"
    /\ sleeps' = sleeps + 1
    /\ IF sleep_sec < 0
       THEN pc' = "raised" /\ UNCHANGED idx
       ELSE pc' = "loop" /\ idx' = idx + 1
    /\ UNCHANGED <<category_url, limit, today_kst, sleep_sec, local_off, url_list,
                   results, fetched, outcome>>
    /\ UNCHANGED LinksVars /\ UNCHANGED ResolveVars

\* line 237
Return ==
    /\ pc = "loop"
    /\ idx > Len(url_list)
    /\ pc' = "done"
    /\ UNCHANGED <<category_url, limit, today_kst, sleep_sec, local_off, url_list, idx,
                   results, fetched, outcome, sleeps>>
    /\ UNCHANGED LinksVars /\ UNCHANGED ResolveVars

Next == CrawlStart \/ Discover \/ ProcessArticle \/ Sleep \/ Return

Spec == Init /\ [][Next]_vars


-----------------------------------------------------------------------------
(* Properties of get_article_links, checked under SpecLinks.               *)

\* C1: the list get_article_links returns has at most limit entries and
\* holds no URL twice, however many links pass 1 and pass 2 found.
C1_AtMostLimitNoDuplicates ==
    pc = "done" =>
        /\ Len(result) <= limit
        /\ \A i, j \in DOMAIN result : i # j => result[i] # result[j]

\* pass 1 found more links than limit, two anchors of the page stand for the
\* same URL, and the list was returned
C1_Witness ==
    /\ pc = "done"
    /\ Cardinality(pass1) > limit
    /\ Len(result) = limit
    /\ \E i, j \in DOMAIN page :
          /\ i < j
          /\ page[i].href # page[j].href
          /\ is_article_url(page[i].href) /\ is_article_url(page[j].href)
          /\ normalize_link(page[i].href) = normalize_link(page[j].href)

\* C8: every relative href that discovery accepted on the listing page is
\* collected as that href resolved against the category_url that was passed.
C8_ResolvedAgainstPassedUrl ==
    pc \in {"pass2", "trunc", "done"} =>
        \A i \in DOMAIN page :
            ( /\ page[i].h3 \/ i <= scanned
              /\ is_article_url(page[i].href)
              /\ page[i].href.netloc = <<>> )
            => urljoin(category_url, page[i].href) \in links

\* C10: pass 2 runs only when pass 1 left fewer than limit links and goes on
\* only while the set holds fewer than limit links; when pass 1 found fewer
\* than limit links, each of them is returned and the truncation removes
\* nothing.
C10_TopUpStopsAtLimit ==
    /\ (pc = "pass2" \/ scanned > 0) => Cardinality(pass1) < limit
    /\ pc = "pass2" => Cardinality(links) < limit
    /\ (pc = "done" /\ Cardinality(pass1) < limit) =>
          /\ pass1 \subseteq Range(result)
          /\ Len(result) = Cardinality(links)

\* pass 1 found some links but fewer than limit, and pass 2 reached limit
\* before the last anchor
C10_Witness ==
    /\ pc = "done"
    /\ pass1 # {}
    /\ Cardinality(pass1) < limit
    /\ scanned > 0 /\ scanned < Len(page)
    /\ Cardinality(links) = limit

-----------------------------------------------------------------------------
(* Properties of the timestamp strategies, checked under SpecResolve.      *)

\* C4: published_dt is the value of the first of meta tag, JSON-LD, time
\* element, page text that yields a value; a strategy is evaluated only when
\* every earlier one yielded nothing; the timestamp is absent exactly when
\* all four yield nothing.
C4_FirstStrategyWins ==
    pc \in {"build", "done"} =>
        LET m == get_meta_datetime(doc)
            l == get_ldjson_datetime(doc)
            t == get_time_tag_datetime(doc)
            x == get_text_datetime_fallback(doc)
            first == IF m # None THEN m ELSE IF l # None THEN l ELSE IF t # None THEN t ELSE x
        IN  /\ published_dt = first
            /\ published_dt = None <=> (m = None /\ l = None /\ t = None /\ x = None)
            /\ \A k \in DOMAIN tried :
                  /\ tried[k].name = <<"meta", "ld", "time", "text">>[k]
                  /\ \A j \in 1..(k - 1) : tried[j].value = None
            /\ pc = "done" => (art.published_kst = None <=> first = None)

\* the meta tag and the JSON-LD data both hold a date, the two differ, and
\* the record was built from the meta tag's
C4_Witness ==
    /\ pc = "done"
    /\ get_meta_datetime(doc) # None
    /\ get_ldjson_datetime(doc) # None
    /\ get_meta_datetime(doc) # get_ldjson_datetime(doc)
    /\ art.published_kst = isoformat(astimezone(get_meta_datetime(doc), KST, local_off))

\* C5: a value returned by a timestamp strategy is a timezone-aware
\* datetime, never a naive one.
C5_StrategiesReturnAware ==
    \A k \in DOMAIN tried :
        tried[k].value # None => tried[k].value.kind = "aware"

\* C9 reads the JSON-LD strategy as follows: the objects of every script that
\* is JSON, in document order; the date of an object is datePublished, or
\* dateCreated when datePublished is missing
C9_Objects(ld) ==
    LET RECURSIVE Flat(_)
        Flat(b) == IF b > Len(ld) THEN <<>>
                   ELSE (IF ld[b].kind = "block" THEN ld[b].objs ELSE <<>>) \o Flat(b + 1)
    IN  Flat(1)

C9_Date(o) == IF o.datePublished # None THEN o.datePublished ELSE o.dateCreated

C9_Qualifies(o) ==
    /\ o.kind = "obj"
    /\ o.type \in ArticleTypes
    /\ C9_Date(o) # None
    /\ fromisoformat(replace_Z(C9_Date(o))) # Raise

C9_Expected(ld) ==
    LET objs == C9_Objects(ld)
        hits == { i \in DOMAIN objs : C9_Qualifies(objs[i]) }
    IN  IF hits = {} THEN None
        ELSE LET i == CHOOSE h \in hits : \A g \in hits : h <= g
             IN  fromisoformat(replace_Z(C9_Date(objs[i])))

\* C9: the JSON-LD strategy returns the date of the first object, over the
\* scripts in document order and the objects in list order, whose @type is
\* an article type and whose date parses, and returns nothing only when
\* there is no such object.
C9_FirstParseableObject ==
    \A k \in DOMAIN tried :
        tried[k].name = "ld" => tried[k].value = C9_Expected(doc.ld)

-----------------------------------------------------------------------------
(* Properties of crawl_today, checked under Spec.                          *)

\* the URLs of the articles whose outcome is "kept", in the order of url_list
RECURSIVE KeptUrls(_)
KeptUrls(i) ==
    IF i > Len(outcome) THEN <<>>
    ELSE (IF outcome[i] = "kept" THEN <<url_list[i]>> ELSE <<>>) \o KeptUrls(i + 1)

\* C2: once discovery returned, an exception on one article never leaves
\* crawl_today: the article is dropped, the loop goes on, and at the return
\* every discovered URL was fetched exactly once, in order, and results
\* holds the articles kept before and after the failure.
C2_ArticleFailureIsolated ==
    /\ (Len(fetched) >= 1 /\ fetched[1].ok) => pc # "raised"
    /\ pc \in {"loop", "sleep"} => ENABLED Next
    /\ \A i \in DOMAIN outcome :
          outcome[i] = "raised" => \A k \in DOMAIN results : results[k].url # url_list[i]
    /\ pc = "done" =>
          /\ Len(fetched) = Len(url_list) + 1
          /\ \A i \in DOMAIN url_list : fetched[i + 1].url = url_list[i]
          /\ Len(outcome) = Len(url_list)
          /\ [k \in DOMAIN results |-> results[k].url] = KeptUrls(1)

\* an article raised, the next one was kept, and crawl_today returned
C2_Witness ==
    /\ pc = "done"
    /\ \E i \in 1..(Len(outcome) - 1) : outcome[i] = "raised" /\ outcome[i + 1] = "kept"

\* C3: every record of results has a publish timestamp, and its calendar date
\* in KST is the calendar date of the target datetime taken in KST.
C3_ResultsOnTargetDayInKst ==
    \A k \in DOMAIN results :
        /\ results[k].published_kst # None
        /\ DateOf(fromisoformat(results[k].published_kst))
              = DateOf(astimezone(today_kst, KST, local_off))

\* C6: when the fetch of the listing page fails, crawl_today ends with that
\* exception: no article page is fetched, no pause is taken, nothing is
\* returned.
C6_ListingFailureAborts ==
    (Len(fetched) >= 1 /\ ~fetched[1].ok) =>
        /\ pc = "raised"
        /\ Len(fetched) = 1
        /\ sleeps = 0
        /\ results = <<>>
        /\ ~ENABLED Next

\* the fetch of the listing page failed and crawl_today raised
C6_Witness ==
    /\ pc = "raised"
    /\ fetched = <<Log(category_url, FALSE)>>

\* C7: results is a subsequence of the discovered URLs: the kept articles
\* stand in the order of their URLs in url_list, and no URL has two records.
C7_ResultsInDiscoveryOrder ==
    /\ \E f \in [DOMAIN results -> DOMAIN url_list] :
          /\ \A k \in DOMAIN results : results[k].url = url_list[f[k]]
          /\ \A k, n \in DOMAIN results : k < n => f[k] < f[n]
    /\ \A k, n \in DOMAIN results : k # n => results[k].url # results[n].url

\* two articles were kept, and crawl_today returned
C7_Witness ==
    /\ pc = "done"
    /\ Len(results) >= 2

=============================================================================
